---- MODULE Spec2Model ----
(***************************************************************************)
(* The Retrieval-Augmented Query Engine of src/rag/query_engine.py:        *)
(* multi-collection retrieval, context packing, answer synthesis with an   *)
(* extractive fallback, and confidence scoring.                            *)
(*                                                                         *)
(* Numbers.  A relevance score is an integer number of hundredths (0.70 is *)
(* 70); a confidence is an exact fraction [num, den].  A text is known by  *)
(* its length and, where its identity matters, by the passage it comes     *)
(* from.                                                                   *)
(***************************************************************************)
EXTENDS Integers, Sequences, FiniteSets, TLC

VARIABLES
    config,         \* the configuration read from the environment
    store,          \* collection name -> what the Document Store Adapter answers
    backend,        \* the generative backend: configured or not, and how it answers
    op,             \* the operation in progress
    req,            \* the arguments of the call in progress
    pc,             \* the position of the call in progress
    cursor,         \* index of the next collection to query (the for loop)
    all_results,    \* query_engine.py:135
    relevant_docs,  \* what _retrieve_documents returned (or that it raised)
    context,        \* what _prepare_context returned
    response,       \* what the call returned
    timeline,       \* what get_historical_timeline returned (or that it raised)
    calls,          \* the calls made to the collaborators, in order
    suspended       \* another call of the same engine, waiting for its turn

vars == <<config, store, backend, op, req, pc, cursor, all_results, relevant_docs,
          context, response, timeline, calls, suspended>>

-----------------------------------------------------------------------------
(* Bounds of the model *)

\* Longest answer of the adapter, in passages, in the retrieval specification.
MaxResp == 2

\* Largest max_sources a caller passes.
MaxSources == 3

\* Longest answer of the adapter in the specification of query.
MaxRespQuery == 1

\* Most passages handed to the Context Packer.
MaxPacked == 4

\* Most passages handed to the Confidence Scorer.
MaxScored == 11

-----------------------------------------------------------------------------
(* Program constants *)

\* The default of config.similarity_threshold, in hundredths.
DefaultSimilarityThreshold == 70

\* The configuration: the similarity threshold, in hundredths.
Config(threshold) == [similarity_threshold |-> threshold]

DefaultCollections ==
    <<"documents", "research_papers", "news_articles", "patents", "historical_data">>

-----------------------------------------------------------------------------
(* Helpers *)

Min(a, b) == IF a <= b THEN a ELSE b

Max(a, b) == IF a >= b THEN a ELSE b

\* Python's s[:k] for any integer k.
SliceTo(s, k) ==
    IF k >= 0 THEN SubSeq(s, 1, Min(k, Len(s)))
    ELSE SubSeq(s, 1, Max(Len(s) + k, 0))

\* Python's floor division by a positive number.
FloorDiv(a, b) == IF a >= 0 THEN a \div b ELSE -((-a + b - 1) \div b)

-----------------------------------------------------------------------------
(* Passages *)

\* One element of an adapter answer.  dict = FALSE is an element that is not a
\* mapping at all.  score_kind: "num" (a number, in score), "missing" (no
\* relevance_score key) or "bad" (a value that does not compare with numbers).
\* content_kind: "text" (a string of content_len characters), "missing" or
\* "bad" (None).  source = "" is a passage whose metadata has no source;
\* title_len and timestamp_len are 0 when the metadata has none.  tokens are
\* the numbers written as stand-alone four-digit tokens in the content, in
\* the order of the text; embedded are the four-digit numbers written inside
\* a longer word or number ("a1984", "19845").  doc is the element's place in
\* the adapter's answer.
Passage ==
    [dict |-> TRUE, score_kind |-> "num", score |-> 90, content_kind |-> "text",
     content_len |-> 150, source |-> "ieee.org", title_len |-> 0,
     timestamp_len |-> 0, tokens |-> <<>>, embedded |-> <<>>, doc |-> 1,
     collection |-> ""]

\* result.get("relevance_score", 0)
RelevanceOf(p) == IF p.score_kind = "missing" THEN 0 ELSE p.score

\* The adapter raised, or returned `results`.
Raises == [raises |-> TRUE, results |-> <<>>]

Returns(results) == [raises |-> FALSE, results |-> results]

-----------------------------------------------------------------------------
(* Document Store Adapter *)

\* db_manager.query_documents as the engine sees it: the store's answer for
\* the collection, at most n_results long; a collection the store does not
\* hold answers [].
QueryDocuments(st, collection_name, n_results) ==
    IF collection_name \notin DOMAIN st THEN Returns(<<>>)
    ELSE IF st[collection_name].raises THEN Raises
    ELSE Returns(SliceTo(st[collection_name].results, Max(n_results, 0)))

-----------------------------------------------------------------------------
(* _retrieve_documents *)

\* `if not collections`: the empty list selects the default collections too.
EffectiveCollectionsIfFalsy(collections) ==
    IF collections.none \/ collections.list = <<>> THEN DefaultCollections
    ELSE collections.list

\* collections is None: the five default collections.
EffectiveCollections(collections) ==
    IF collections.none THEN DefaultCollections ELSE collections.list

\* n_results of one collection query.
FetchCount(max_sources, collections) ==
    FloorDiv(max_sources, Len(collections)) + 2

\* result["collection"] = collection_name
Tagged(p, collection_name) == [p EXCEPT !.collection = collection_name]

\* The body of the try of one loop iteration, on an answer: each result is
\* tagged and appended at once; a result that is no mapping raises, which ends
\* the iteration with what was appended so far.
RECURSIVE AppendResults(_, _, _)
AppendResults(all, results, collection_name) ==
    IF results = <<>> THEN all
    ELSE IF ~Head(results).dict THEN all
    ELSE AppendResults(Append(all, Tagged(Head(results), collection_name)),
                       Tail(results), collection_name)

\* (mutant) No except clause: an adapter error leaves the iteration.
CollectionStepUncaught(all, answer, collection_name) ==
    [raised |-> answer.raises,
     all |-> IF answer.raises THEN all
             ELSE AppendResults(all, answer.results, collection_name)]

\* One iteration of the for loop, with its except clause: the list after it;
\* raised tells whether an exception leaves the iteration (none does: the
\* clause catches Exception and continues).
CollectionStep(all, answer, collection_name) ==
    [raised |-> FALSE,
     all |-> IF answer.raises THEN all
             ELSE AppendResults(all, answer.results, collection_name)]

\* (mutant) An unstable descending sort: p goes before the elements of its key.
RECURSIVE InsertDescBeforeEquals(_, _)
InsertDescBeforeEquals(sorted, p) ==
    IF sorted = <<>> THEN <<p>>
    ELSE IF RelevanceOf(Head(sorted)) > RelevanceOf(p)
         THEN <<Head(sorted)>> \o InsertDescBeforeEquals(Tail(sorted), p)
         ELSE <<p>> \o sorted

\* list.sort(key=..., reverse=True): stable, descending.  Insert p after every
\* element whose key is at least p's.
RECURSIVE InsertDesc(_, _)
InsertDesc(sorted, p) ==
    IF sorted = <<>> THEN <<p>>
    ELSE IF RelevanceOf(Head(sorted)) >= RelevanceOf(p)
         THEN <<Head(sorted)>> \o InsertDesc(Tail(sorted), p)
         ELSE <<p>> \o sorted

RECURSIVE SortByRelevance(_)
SortByRelevance(s) ==
    IF s = <<>> THEN <<>>
    ELSE InsertDesc(SortByRelevance(SubSeq(s, 1, Len(s) - 1)), s[Len(s)])

\* (mutant) The filter compares with the wrong sign.
FilterBelowThreshold(s) ==
    SelectSeq(s, LAMBDA p : RelevanceOf(p) <= config.similarity_threshold)

\* The list comprehension of the threshold filter.
FilterByThreshold(s) ==
    SelectSeq(s, LAMBDA p : RelevanceOf(p) >= config.similarity_threshold)

\* A relevance_score that does not compare with a number raises TypeError in
\* the sort (two or more results) or in the filter.
ScoreRaises(all) == \E i \in 1..Len(all) : all[i].score_kind = "bad"

\* (mutant) The threshold filter is left out.
RankTruncate(all, max_sources) ==
    IF ScoreRaises(all) THEN [raised |-> TRUE, docs |-> <<>>]
    ELSE [raised |-> FALSE, docs |-> SliceTo(SortByRelevance(all), max_sources)]

\* Lines 155-164: sort, filter, truncate.
RankFilterTruncate(all, max_sources) ==
    IF ScoreRaises(all) THEN [raised |-> TRUE, docs |-> <<>>]
    ELSE [raised |-> FALSE,
          docs |-> SliceTo(FilterByThreshold(SortByRelevance(all)), max_sources)]

\* The loop as a whole, from the i-th collection on.
RECURSIVE LoopFrom(_, _, _, _, _)
LoopFrom(st, max_sources, collections, i, all) ==
    IF i > Len(collections) THEN [raised |-> FALSE, all |-> all]
    ELSE LET step == CollectionStep(
                         all,
                         QueryDocuments(st, collections[i],
                                        FetchCount(max_sources, collections)),
                         collections[i])
         IN  IF step.raised THEN step
             ELSE LoopFrom(st, max_sources, collections, i + 1, step.all)

\* _retrieve_documents as a whole: what it returns, or that it raised.
RetrieveDocuments(st, max_sources, collections) ==
    LET loop == LoopFrom(st, max_sources, EffectiveCollections(collections), 1, <<>>)
    IN  IF loop.raised THEN [raised |-> TRUE, docs |-> <<>>]
        ELSE RankFilterTruncate(loop.all, max_sources)

-----------------------------------------------------------------------------
(* _prepare_context *)

\* len(f"{content}") of doc.get("content", ""): None formats as "None".
ContentTextLen(p) ==
    CASE p.content_kind = "text" -> p.content_len
      [] p.content_kind = "missing" -> 0
      [] OTHER -> 4

\* len(source_info): "Source: " and the source or "Unknown", then " - " and
\* the title, then " (" the first 10 characters of the timestamp and ")".
SourceInfoLen(p) ==
    8 + (IF p.source = "" THEN 7 ELSE Len(p.source))
      + (IF p.title_len > 0 THEN 3 + p.title_len ELSE 0)
      + (IF p.timestamp_len > 0 THEN 3 + Min(p.timestamp_len, 10) ELSE 0)

\* len(doc_text)
DocTextLen(p) == SourceInfoLen(p) + 1 + ContentTextLen(p) + 1

\* remaining_space >= 100
MeaningfulSpaceFrom100(remaining_space) == remaining_space >= 100

\* remaining_space > 100
MeaningfulSpace(remaining_space) == remaining_space > 100

\* The loop going on after a block that does not fit, to later blocks that do.
RECURSIVE PackFromSkipping(_, _, _, _)
PackFromSkipping(docs, i, current_length, max_length) ==
    IF i > Len(docs) THEN <<>>
    ELSE IF current_length + DocTextLen(docs[i]) > max_length
    THEN PackFromSkipping(docs, i + 1, current_length, max_length)
    ELSE <<[doc |-> i, len |-> DocTextLen(docs[i]), truncated |-> FALSE]>>
         \o PackFromSkipping(docs, i + 1, current_length + DocTextLen(docs[i]),
                             max_length)

\* The loop of _prepare_context from passage i on: the blocks appended to
\* context_parts, each with the passage it renders and its length.
RECURSIVE PackFrom(_, _, _, _)
PackFrom(docs, i, current_length, max_length) ==
    IF i > Len(docs) THEN <<>>
    ELSE IF current_length + DocTextLen(docs[i]) > max_length
    THEN LET remaining_space == max_length - current_length
         IN  IF MeaningfulSpace(remaining_space)
             THEN <<[doc |-> i, len |-> remaining_space + 3, truncated |-> TRUE]>>
             ELSE <<>>
    ELSE <<[doc |-> i, len |-> DocTextLen(docs[i]), truncated |-> FALSE]>>
         \o PackFrom(docs, i + 1, current_length + DocTextLen(docs[i]), max_length)

RECURSIVE SumLen(_)
SumLen(parts) == IF parts = <<>> THEN 0 ELSE Head(parts).len + SumLen(Tail(parts))

\* len(sep.join(parts))
JoinLen(parts, sep_len) ==
    IF parts = <<>> THEN 0 ELSE SumLen(parts) + sep_len * (Len(parts) - 1)

\* _prepare_context: the blocks and the length of the text returned.
PrepareContext(docs, max_length) ==
    LET context_parts == PackFrom(docs, 1, 0, max_length)
    IN  [parts |-> context_parts, len |-> JoinLen(context_parts, 5)]

NoContext == [parts |-> <<>>, len |-> 0]

-----------------------------------------------------------------------------
(* _generate_fallback_answer *)

\* An answer text: its kind, its length, and for an extractive answer the
\* excerpts it quotes (passage, characters taken from the start of its
\* content, ellipsis or not) and the sources it cites.
Answer(kind, len, excerpts, cites) ==
    [kind |-> kind, len |-> len, excerpts |-> excerpts, cites |-> cites]

NoAnswer == Answer("none", 0, <<>>, <<>>)

\* len(content) raises TypeError on a content that is no string.
ContentRaises(docs) ==
    \E i \in 1..Len(docs) : docs[i].content_kind = "bad"

\* A long content cut to the 200 characters of the test.
ExcerptCutAt200(docs, i) ==
    LET n == IF docs[i].content_kind = "text" THEN docs[i].content_len ELSE 0
    IN  IF n > 200
        THEN [doc |-> i, take |-> 200, ellipsis |-> TRUE, len |-> 203]
        ELSE [doc |-> i, take |-> n, ellipsis |-> FALSE, len |-> n]

\* The text one passage contributes: content[:500] + "..." when the content
\* is longer than 200 characters, the content otherwise.
Excerpt(docs, i) ==
    LET n == IF docs[i].content_kind = "text" THEN docs[i].content_len ELSE 0
    IN  IF n > 200
        THEN [doc |-> i, take |-> Min(n, 500), ellipsis |-> TRUE, len |-> Min(n, 500) + 3]
        ELSE [doc |-> i, take |-> n, ellipsis |-> FALSE, len |-> n]

\* metadata.get("source", "Unknown source")
SourceOf(p) == IF p.source = "" THEN "Unknown source" ELSE p.source

\* The loop that collects each source once, in order of first occurrence.
RECURSIVE CollectSources(_, _)
CollectSources(docs, sources) ==
    IF docs = <<>> THEN sources
    ELSE CollectSources(
             Tail(docs),
             IF \E j \in 1..Len(sources) : sources[j] = SourceOf(Head(docs))
             THEN sources
             ELSE Append(sources, SourceOf(Head(docs))))

RECURSIVE SumStrLen(_)
SumStrLen(strs) == IF strs = <<>> THEN 0 ELSE Len(Head(strs)) + SumStrLen(Tail(strs))

\* _generate_fallback_answer: the answer, or that it raised.
GenerateFallbackAnswer(context_docs) ==
    LET top == SliceTo(context_docs, 3)
        relevant_text == [i \in 1..Len(top) |-> Excerpt(top, i)]
        sources == CollectSources(top, <<>>)
        body == 71 + JoinLen(relevant_text, 2)
        citation == IF sources # <<>>
                    THEN 11 + SumStrLen(sources) + 2 * (Len(sources) - 1)
                    ELSE 0
    IN  IF context_docs = <<>>
        THEN [raised |-> FALSE, answer |-> Answer("fallback", 92, <<>>, <<>>)]
        ELSE IF ContentRaises(top)
        THEN [raised |-> TRUE, answer |-> NoAnswer]
        ELSE [raised |-> FALSE,
              answer |-> Answer("fallback", body + citation, relevant_text, sources)]

-----------------------------------------------------------------------------
(* _generate_answer *)

\* How the generative backend answers one call: "completion" (a text of
\* completion_len characters after strip()), "raises" (network, quota),
\* "timeout" (the client raises a timeout), "malformed" (no choices, or a
\* content that is None) or "hangs" (the backend never responds and the
\* client call, which is given no timeout, never ends).
Backend(configured, behaviour, completion_len) ==
    [configured |-> configured, behaviour |-> behaviour,
     completion_len |-> completion_len]

\* not openai or not config.openai_api_key
\* The backend is taken to be there, the check of lines 169-171 left out.
BackendAssumedPresent(b) == FALSE

\* Lines 169-171: no OpenAI client can be made (no key, or no openai module).
BackendAbsent(b) == ~b.configured

\* (mutant) The backend's failure is raised to the caller of _generate_answer.
OnBackendFailureReraises(context_docs) == [raised |-> TRUE, answer |-> NoAnswer]

\* The except clause of _generate_answer.
OnBackendFailure(context_docs) == GenerateFallbackAnswer(context_docs)

\* Lines 205-222: the backend call and what follows it.
BackendOutcome(b, context_docs) ==
    IF b.behaviour = "completion"
    THEN [raised |-> FALSE,
          answer |-> Answer("generated", b.completion_len, <<>>, <<>>)]
    ELSE OnBackendFailure(context_docs)

-----------------------------------------------------------------------------
(* _calculate_confidence *)

\* A confidence is the fraction num / den, den > 0.
Zero == [num |-> 0, den |-> 1]

RECURSIVE SumRelevance(_)
SumRelevance(docs) ==
    IF docs = <<>> THEN 0 ELSE RelevanceOf(Head(docs)) + SumRelevance(Tail(docs))

\* (num_docs / 10) * 0.3, over the denominator 5000 * num_docs.
DocCountTerm(num_docs) == 150 * num_docs * num_docs

\* The terms taken before there is an answer: its length counts as 0.
QualityTermsBeforeAnswer(docs, answer_len) == 25 * SumRelevance(docs)

\* avg_relevance * 0.5 + answer_length_factor * 0.2, over 5000 * num_docs
\* (relevance in hundredths).
QualityTerms(docs, answer_len) ==
    25 * SumRelevance(docs) + 2 * Len(docs) * Min(answer_len, 500)

\* min(confidence, 1.0)
ClampConfidence(num, den) == [num |-> Min(num, den), den |-> den]

CalculateConfidence(docs, answer_len) ==
    IF docs = <<>> THEN Zero
    ELSE ClampConfidence(DocCountTerm(Len(docs)) + QualityTerms(docs, answer_len),
                         5000 * Len(docs))

-----------------------------------------------------------------------------
(* query *)

\* A QueryResponse (processing_time left out), or raised = TRUE when the call
\* raised to its caller.
QueryResponse(answer, sources, confidence) ==
    [returned |-> TRUE, raised |-> FALSE, answer |-> answer, sources |-> sources,
     confidence |-> confidence]

NoResponse ==
    [returned |-> FALSE, raised |-> FALSE, answer |-> NoAnswer, sources |-> <<>>,
     confidence |-> Zero]

\* (mutant) No except clause in query: the exception reaches the caller.
ExceptClauseMissing == [NoResponse EXCEPT !.raised = TRUE]

\* The except clause of query: the answer names the error (55 characters
\* followed by the exception's text, which the model leaves out).
ExceptClause ==
    QueryResponse(Answer("error", 55, <<>>, <<>>), <<>>, Zero)

\* Lines 88-94: the canned answer of an empty retrieval, 184 characters.
NoInformation ==
    QueryResponse(Answer("no_information", 184, <<>>, <<>>), <<>>, Zero)

\* The confidence taken from the sources handed back.
RespondScoringSources(docs, generated, include_sources) ==
    IF generated.raised THEN ExceptClause
    ELSE QueryResponse(generated.answer,
                       IF include_sources THEN docs ELSE <<>>,
                       CalculateConfidence(IF include_sources THEN docs ELSE <<>>,
                                           generated.answer.len))

\* Lines 99-112, once the answer is there (or _generate_answer raised).
Respond(docs, generated, include_sources) ==
    IF generated.raised THEN ExceptClause
    ELSE QueryResponse(generated.answer,
                       IF include_sources THEN docs ELSE <<>>,
                       CalculateConfidence(docs, generated.answer.len))

\* query as a whole (lines 80-121), for the arguments r and what the
\* collaborators answer.
QueryResult(r) ==
    LET retrieved == RetrieveDocuments(store, r.max_sources, r.collections)
    IN  IF retrieved.raised THEN ExceptClause
        ELSE IF retrieved.docs = <<>> THEN NoInformation
        ELSE Respond(retrieved.docs,
                     IF BackendAbsent(backend)
                     THEN GenerateFallbackAnswer(retrieved.docs)
                     ELSE BackendOutcome(backend, retrieved.docs),
                     r.include_sources)

-----------------------------------------------------------------------------
(* Timeline Miner: get_historical_timeline, lines 310-347 *)

\* The pattern \b(19[5-9]\d|20[0-2]\d)\b on a four-digit token.
YearPattern(token) ==
    \/ 1950 <= token /\ token <= 1999
    \/ 2000 <= token /\ token <= 2029

\* The pattern without its \b: digits inside a word match as well.
FindYearsInsideWords(p) == SelectSeq(p.tokens \o p.embedded, YearPattern)

\* re.findall(pattern, content): the matches in the order of the text.  The
\* \b on both sides keeps the pattern from matching inside a word.
FindYears(p) == SelectSeq(p.tokens, YearPattern)

\* set(years)
YearSet(p) == {FindYears(p)[k] : k \in DOMAIN FindYears(p)}

RECURSIVE Ascending(_)
Ascending(S) ==
    IF S = {} THEN <<>>
    ELSE LET least == CHOOSE x \in S : \A y \in S : x <= y
         IN  <<least>> \o Ascending(S \ {least})

Reversed(s) == [k \in 1..Len(s) |-> s[Len(s) + 1 - k]]

\* The loop visits every match, the set never built.
IterateMatches(p, descending) == FindYears(p)

\* The order in which `for year in set(years)` visits the years is the set's
\* own: `descending` stands for it.
IterateYears(p, descending) ==
    IF descending THEN Reversed(Ascending(YearSet(p))) ELSE Ascending(YearSet(p))

\* One event (lines 329-334); `passage` stands for the text of the preview.
Event(p, i, year) ==
    [year |-> year, passage |-> i, preview_len |-> Min(p.content_len, 200) + 3,
     source |-> IF p.source = "" THEN "Unknown" ELSE p.source,
     relevance |-> RelevanceOf(p)]

\* The events of one passage (lines 321-334).
EventsOfPassage(p, i, descending) ==
    LET years == IterateYears(p, descending)
    IN  [k \in 1..Len(years) |-> Event(p, i, years[k])]

\* The loop over the passages (lines 320-334): order[i] is the iteration
\* order of the years of passage i.
RECURSIVE ExtractEvents(_, _, _)
ExtractEvents(docs, i, order) ==
    IF i > Len(docs) THEN <<>>
    ELSE EventsOfPassage(docs[i], i, order[i]) \o ExtractEvents(docs, i + 1, order)

\* The place of a new event in a list kept ascending by year, after the
\* events of the same year.
InsertByYear(sorted, ev) ==
    LET before == Cardinality({k \in DOMAIN sorted : sorted[k].year <= ev.year})
    IN  SubSeq(sorted, 1, before) \o <<ev>> \o SubSeq(sorted, before + 1, Len(sorted))

\* The events left in the order of extraction.
SortByYearOmitted(events) == events

\* timeline_events.sort(key=lambda x: x["year"]): ascending and stable.
RECURSIVE SortByYear(_)
SortByYear(events) ==
    IF events = <<>> THEN <<>>
    ELSE InsertByYear(SortByYear(SubSeq(events, 1, Len(events) - 1)),
                      events[Len(events)])

Year(value) == [none |-> FALSE, value |-> value]

None == [none |-> TRUE, value |-> 0]

\* A range that ends where it starts.
YearRangeOfFirst(events) ==
    [start |-> IF events # <<>> THEN Year(events[1].year) ELSE None,
     end |-> IF events # <<>> THEN Year(events[1].year) ELSE None]

\* year_range (lines 343-346)
YearRange(events) ==
    [start |-> IF events # <<>> THEN Year(events[1].year) ELSE None,
     end |-> IF events # <<>> THEN Year(events[Len(events)].year) ELSE None]

Timeline(events) ==
    [returned |-> TRUE, raised |-> FALSE, timeline |-> events,
     total_events |-> Len(events), year_range |-> YearRange(events)]

NoTimeline == [Timeline(<<>>) EXCEPT !.returned = FALSE]

\* The exception of _retrieve_documents or of re.findall leaves the call:
\* get_historical_timeline has no handler.
TimelineRaises == [NoTimeline EXCEPT !.raised = TRUE]

\* re.findall raises TypeError on a content that is no string.
FindYearsRaises(docs) ==
    \E i \in 1..Len(docs) : docs[i].content_kind = "bad"

\* get_historical_timeline after _retrieve_documents returned `docs`.
HistoricalTimeline(docs, order) ==
    IF FindYearsRaises(docs) THEN TimelineRaises
    ELSE Timeline(SortByYear(ExtractEvents(docs, 1, order)))

\* get_historical_timeline as a whole (lines 310-347), for the arguments r of
\* its retrieval: the results it can give, one for each iteration order.
TimelineResults(r) ==
    LET retrieved == RetrieveDocuments(store, r.max_sources, r.collections)
    IN  IF retrieved.raised THEN {TimelineRaises}
        ELSE {HistoricalTimeline(retrieved.docs, order) :
                 order \in [1..Len(retrieved.docs) -> BOOLEAN]}

-----------------------------------------------------------------------------
(* The calls and their steps *)

\* The arguments of a call, with the defaults of the signatures.
Request ==
    [include_sources |-> TRUE, max_sources |-> 10,
     collections |-> [none |-> TRUE, list |-> <<>>],
     max_length |-> 4000, answer_len |-> 0]

Collections(list) == [none |-> FALSE, list |-> list]

NotRetrieved == [raised |-> FALSE, docs |-> <<>>]

\* A write to the store in the place of the query.
AdapterWrite(collection_name, n_results) ==
    [to |-> "adapter", operation |-> "add_documents",
     collection |-> collection_name, n_results |-> n_results]

\* db_manager.query_documents(query_text, collection_name, n_results)
AdapterCall(collection_name, n_results) ==
    [to |-> "adapter", operation |-> "query_documents",
     collection |-> collection_name, n_results |-> n_results]

\* client.chat.completions.create(...)
BackendCall ==
    [to |-> "backend", operation |-> "chat.completions.create",
     collection |-> "", n_results |-> 0]

\* The list of a call, kept from the call before.
SharedList(previous) == previous

\* all_results = []
NewList(previous) == <<>>

\* A call that has not started: the values of Idle.
IdleCall ==
    [op |-> "none", req |-> Request, pc |-> "idle", cursor |-> 1,
     all_results |-> <<>>, relevant_docs |-> NotRetrieved, context |-> NoContext,
     response |-> NoResponse, timeline |-> NoTimeline, calls |-> <<>>]

\* A call enters _retrieve_documents (lines 131-135).
Call(operation, r) ==
    /\ pc = "idle"
    /\ op' = operation
    /\ req' = r
    /\ pc' = "fetch"
    /\ cursor' = 1
    /\ all_results' = NewList(all_results)
    /\ UNCHANGED <<config, store, backend, suspended, relevant_docs, context, response,
                   timeline, calls>>

\* One iteration of the loop over the collections (lines 138-153).
Fetch ==
    LET collections == EffectiveCollections(req.collections)
    IN  /\ pc = "fetch"
        /\ cursor <= Len(collections)
        /\ LET collection_name == collections[cursor]
               n_results == FetchCount(req.max_sources, collections)
               step == CollectionStep(all_results,
                                      QueryDocuments(store, collection_name, n_results),
                                      collection_name)
           IN  /\ calls' = Append(calls, AdapterCall(collection_name, n_results))
               /\ all_results' = step.all
               /\ IF step.raised
                  THEN /\ relevant_docs' = [raised |-> TRUE, docs |-> <<>>]
                       /\ pc' = IF op = "retrieve" THEN "done" ELSE "retrieved"
                  ELSE UNCHANGED <<relevant_docs, pc>>
        /\ cursor' = cursor + 1
        /\ UNCHANGED <<config, store, backend, suspended, op, req, context,
                       response, timeline>>

\* After the loop: sort, filter, truncate, return (lines 155-164).
Rank ==
    /\ pc = "fetch"
    /\ cursor > Len(EffectiveCollections(req.collections))
    /\ relevant_docs' = RankFilterTruncate(all_results, req.max_sources)
    /\ pc' = IF op = "retrieve" THEN "done" ELSE "retrieved"
    /\ UNCHANGED <<config, store, backend, suspended, op, req, cursor,
                   all_results, context, response, timeline, calls>>

\* query from the return of _retrieve_documents to the backend call or, when
\* none is made, to the return (lines 88-112, 114-121, 169-175).
Synthesize ==
    /\ pc = "retrieved"
    /\ op = "query"
    /\ IF relevant_docs.raised
       THEN response' = ExceptClause /\ pc' = "done" /\ UNCHANGED <<context, calls>>
       ELSE IF relevant_docs.docs = <<>>
       THEN response' = NoInformation /\ pc' = "done" /\ UNCHANGED <<context, calls>>
       ELSE IF BackendAbsent(backend)
       THEN /\ response' = Respond(relevant_docs.docs,
                                   GenerateFallbackAnswer(relevant_docs.docs),
                                   req.include_sources)
            /\ pc' = "done"
            /\ UNCHANGED <<context, calls>>
       ELSE /\ context' = PrepareContext(relevant_docs.docs, 4000)
            /\ calls' = Append(calls, BackendCall)
            /\ pc' = "backend"
            /\ UNCHANGED response
    /\ UNCHANGED <<config, store, backend, suspended, op, req, cursor, all_results,
                   relevant_docs, timeline>>

\* The backend call ends, and query with it (lines 208-222, 99-112).
BackendReturns ==
    /\ pc = "backend"
    /\ backend.behaviour # "hangs"
    /\ response' = Respond(relevant_docs.docs,
                           BackendOutcome(backend, relevant_docs.docs),
                           req.include_sources)
    /\ pc' = "done"
    /\ UNCHANGED <<config, store, backend, suspended, op, req, cursor, all_results,
                   relevant_docs, context, timeline, calls>>

\* get_historical_timeline from the return of _retrieve_documents to its own
\* (lines 316-347).
ExtractTimeline ==
    /\ pc = "retrieved"
    /\ op = "timeline"
    /\ IF relevant_docs.raised
       THEN timeline' = TimelineRaises
       ELSE \E order \in [1..Len(relevant_docs.docs) -> BOOLEAN] :
                timeline' = HistoricalTimeline(relevant_docs.docs, order)
    /\ pc' = "done"
    /\ UNCHANGED <<config, store, backend, suspended, op, req, cursor, all_results,
                   relevant_docs, context, response, calls>>

\* The loop iteration in its two halves.  First the adapter query is issued
\* and the call waits for its answer (lines 140-144, the await).
IssueFetch ==
    LET collections == EffectiveCollections(req.collections)
    IN  /\ pc = "fetch"
        /\ cursor <= Len(collections)
        /\ calls' = Append(calls, AdapterCall(collections[cursor],
                                              FetchCount(req.max_sources, collections)))
        /\ pc' = "awaiting"
        /\ UNCHANGED <<config, store, backend, suspended, op, req, cursor,
                       all_results, relevant_docs, context, response, timeline>>

\* Then the answer arrives and the iteration ends (lines 146-153).
CompleteFetch ==
    LET collections == EffectiveCollections(req.collections)
        collection_name == collections[cursor]
        step == CollectionStep(
                    all_results,
                    QueryDocuments(store, collection_name,
                                   FetchCount(req.max_sources, collections)),
                    collection_name)
    IN  /\ pc = "awaiting"
        /\ all_results' = step.all
        /\ IF step.raised
           THEN /\ relevant_docs' = [raised |-> TRUE, docs |-> <<>>]
                /\ pc' = IF op = "retrieve" THEN "done" ELSE "retrieved"
           ELSE pc' = "fetch" /\ UNCHANGED relevant_docs
        /\ cursor' = cursor + 1
        /\ UNCHANGED <<config, store, backend, suspended, op, req, context,
                       response, timeline, calls>>

\* The call has returned and its frame is dropped: what its variables held
\* is left for the next call to overwrite.
Finish ==
    /\ pc = "done"
    /\ op' = "none"
    /\ pc' = "idle"
    /\ calls' = <<>>
    /\ UNCHANGED <<config, store, backend, suspended, req, cursor, all_results,
                   relevant_docs, context, response, timeline>>

\* The running call, as a record of its variables.
Running ==
    [op |-> op, req |-> req, pc |-> pc, cursor |-> cursor,
     all_results |-> all_results, relevant_docs |-> relevant_docs,
     context |-> context, response |-> response, timeline |-> timeline,
     calls |-> calls]

\* The event loop runs the other call: the running one is waiting for the
\* adapter, has returned or has not started.  config, db_manager and the
\* engine object are the same for both.
Switch ==
    /\ pc \in {"idle", "awaiting", "done"}
    /\ suspended' = Running
    /\ op' = suspended.op
    /\ req' = suspended.req
    /\ pc' = suspended.pc
    /\ cursor' = suspended.cursor
    /\ all_results' = suspended.all_results
    /\ relevant_docs' = suspended.relevant_docs
    /\ context' = suspended.context
    /\ response' = suspended.response
    /\ timeline' = suspended.timeline
    /\ calls' = suspended.calls
    /\ UNCHANGED <<config, store, backend>>

-----------------------------------------------------------------------------
(* Inputs *)

\* The default threshold, and one that a passage without a score meets.
Configs == {Config(DefaultSimilarityThreshold), Config(0)}

StoredCollections == {"documents", "research_papers"}

\* The answers an adapter can give from passages of the given kinds.
AnswersOf(kinds, max_len) ==
    {Raises} \cup
    UNION {{Returns([i \in 1..n |-> [f[i] EXCEPT !.doc = i]]) : f \in [1..n -> kinds]}
           : n \in 0..max_len}

NonDict == [Passage EXCEPT !.dict = FALSE]

Scored(score) == [Passage EXCEPT !.score = score]

MissingScore == [Passage EXCEPT !.score_kind = "missing", !.score = 0]

BadScore == [Passage EXCEPT !.score_kind = "bad", !.score = 0]

BadContent == [Passage EXCEPT !.content_kind = "bad", !.content_len = 0]

CollectionArgs ==
    {Request.collections, Collections(<<"documents">>),
     Collections(<<"documents", "research_papers">>)}

Idle ==
    /\ op = "none"
    /\ req = Request
    /\ pc = "idle"
    /\ cursor = 1
    /\ all_results = <<>>
    /\ relevant_docs = NotRetrieved
    /\ context = NoContext
    /\ response = NoResponse
    /\ timeline = NoTimeline
    /\ calls = <<>>
    /\ suspended = IdleCall

-----------------------------------------------------------------------------
(* Calls of _retrieve_documents *)

RetrieveKinds == {Scored(70), Scored(90), MissingScore, BadScore, NonDict}

InitRetrieve ==
    /\ config \in Configs
    /\ store \in [StoredCollections -> AnswersOf(RetrieveKinds, MaxResp)]
    /\ backend = Backend(FALSE, "completion", 0)
    /\ Idle

CallRetrieve ==
    \E max_sources \in 1..MaxSources, collections \in CollectionArgs :
        Call("retrieve", [Request EXCEPT !.max_sources = max_sources,
                                         !.collections = collections])

NextRetrieve == CallRetrieve \/ Fetch \/ Rank

SpecRetrieve == InitRetrieve /\ [][NextRetrieve]_vars

\* _retrieve_documents has returned or raised.
RetrieveDone == op = "retrieve" /\ pc = "done"

RetrieveReturned == RetrieveDone /\ ~relevant_docs.raised

\* The collections of the call in progress, and what the adapter answered for one.
Queried == EffectiveCollections(req.collections)

AnswerFor(collection_name) ==
    QueryDocuments(store, collection_name, FetchCount(req.max_sources, Queried))

\* A passage's relevanceScore as the claims read it: absent counts as 0.
Relevance(p) == IF p.score_kind = "num" THEN p.score ELSE 0

\* C1: every passage of a RetrievalSet returned by _retrieve_documents has a
\* relevance score at or above the configured similarity threshold, a passage
\* without a score counting as relevance 0.
C1_ThresholdInvariant ==
    RetrieveReturned =>
        \A i \in 1..Len(relevant_docs.docs) :
            /\ relevant_docs.docs[i].score_kind \in {"num", "missing"}
            /\ Relevance(relevant_docs.docs[i]) >= config.similarity_threshold

\* C1 witness: under the default threshold a RetrievalSet is returned that
\* holds a passage exactly at the threshold, from results of which one had no
\* score.
C1_Witness ==
    /\ RetrieveReturned
    /\ config.similarity_threshold = DefaultSimilarityThreshold
    /\ \E i \in 1..Len(all_results) : all_results[i].score_kind = "missing"
    /\ \E i \in 1..Len(relevant_docs.docs) :
           /\ relevant_docs.docs[i].score_kind = "num"
           /\ relevant_docs.docs[i].score = config.similarity_threshold

\* The store with every failing collection answering no passages instead.
FailuresAsEmpty(st) ==
    [c \in DOMAIN st |-> IF st[c].raises THEN Returns(<<>>) ELSE st[c]]

\* C5: an adapter query that fails does not abort the retrieval: every
\* collection of the list is still queried, in order, and the RetrievalSet is
\* the one the retrieval returns when the failing collections answer no
\* passages.
C5_FailureIsolated ==
    RetrieveDone =>
        /\ [i \in 1..Len(calls) |-> calls[i].collection] = Queried
        /\ relevant_docs =
               RetrieveDocuments(FailuresAsEmpty(store), req.max_sources, req.collections)

\* C5 witness: the query of the first collection failed and a passage of a
\* later collection is in the RetrievalSet.
C5_Witness ==
    /\ RetrieveReturned
    /\ Len(Queried) >= 2
    /\ AnswerFor(Queried[1]).raises
    /\ \E i \in 1..Len(relevant_docs.docs) :
           relevant_docs.docs[i].collection = Queried[2]

\* The fetch of a collection failed: the query raised, or its answer holds an
\* element that is no passage.
FetchFailed(collection_name) ==
    LET a == AnswerFor(collection_name)
    IN  a.raises \/ \E i \in 1..Len(a.results) : ~a.results[i].dict

\* C6: a collection whose fetch fails contributes no passage to the
\* RetrievalSet, also when the failure is a malformed element met after
\* well-formed ones.
C6_FailedContributesNothing ==
    RetrieveReturned =>
        \A i \in 1..Len(relevant_docs.docs) :
            ~FetchFailed(relevant_docs.docs[i].collection)

\* p comes before q in the order of the merge: its collection is declared
\* first, or they share it and the adapter returned p first.
Position(list, x) == CHOOSE i \in 1..Len(list) : list[i] = x

MergedBefore(p, q) ==
    \/ Position(Queried, p.collection) < Position(Queried, q.collection)
    \/ p.collection = q.collection /\ p.doc < q.doc

\* C9: the passages of a RetrievalSet are in descending relevance, and those
\* of equal relevance in the order their collections were declared and,
\* within a collection, in the order the adapter returned them.
C9_DeterministicOrder ==
    RetrieveReturned =>
        \A i, j \in 1..Len(relevant_docs.docs) :
            i < j =>
                LET p == relevant_docs.docs[i]
                    q == relevant_docs.docs[j]
                IN  \/ Relevance(p) > Relevance(q)
                    \/ Relevance(p) = Relevance(q) /\ MergedBefore(p, q)

\* C9 witness: the sort moved a passage ahead of an earlier, less relevant
\* one, and two passages of equal relevance come from different collections.
C9_Witness ==
    /\ RetrieveReturned
    /\ Len(all_results) >= 3
    /\ Relevance(all_results[1]) < Relevance(all_results[Len(all_results)])
    /\ Relevance(all_results[1]) >= config.similarity_threshold
    /\ \E i, j \in 1..Len(relevant_docs.docs) :
           /\ i < j
           /\ Relevance(relevant_docs.docs[i]) = Relevance(relevant_docs.docs[j])
           /\ relevant_docs.docs[i].collection # relevant_docs.docs[j].collection

-----------------------------------------------------------------------------
(* Calls of query *)

QueryKinds ==
    {Scored(90), [Scored(90) EXCEPT !.content_len = 600], MissingScore, BadScore,
     BadContent, NonDict}

Backends ==
    {Backend(FALSE, "completion", 0), Backend(TRUE, "completion", 120)}
    \cup {Backend(TRUE, b, 0) : b \in {"raises", "timeout", "malformed"}}

InitQuery ==
    /\ config \in Configs
    /\ store \in [StoredCollections -> AnswersOf(QueryKinds, MaxRespQuery)]
    /\ backend \in Backends
    /\ Idle

CallQuery ==
    \E include_sources \in BOOLEAN, max_sources \in 1..MaxSources,
       collections \in CollectionArgs :
        Call("query", [Request EXCEPT !.include_sources = include_sources,
                                      !.max_sources = max_sources,
                                      !.collections = collections])

NextQuery == CallQuery \/ Fetch \/ Rank \/ Synthesize \/ BackendReturns

SpecQuery == InitQuery /\ [][NextQuery]_vars

\* query has returned or raised.
QueryDone == op = "query" /\ pc = "done"

\* The backend is configured and its call fails.
BackendFails ==
    backend.configured /\ backend.behaviour \in {"raises", "timeout", "malformed"}

\* One of the passages the extractive answer reads has a content that is no text.
TopContentMalformed ==
    \E i \in 1..Len(relevant_docs.docs) :
        i <= 3 /\ relevant_docs.docs[i].content_kind = "bad"

\* An unexpected internal failure: a passage's score does not compare with
\* numbers, or the extractive answer is built from a malformed content.
InternalFailure ==
    \/ \E i \in 1..Len(all_results) : all_results[i].score_kind = "bad"
    \/ /\ relevant_docs.docs # <<>>
       /\ ~backend.configured \/ BackendFails
       /\ TopContentMalformed

\* C4: whatever the collaborators answer, query does not raise: it returns an
\* AnswerResult, and after an unexpected internal failure that result has an
\* answer describing the failure, no sources and confidence 0.
C4_NeverRaises ==
    QueryDone =>
        /\ response.returned /\ ~response.raised
        /\ response.answer.kind \in {"no_information", "generated", "fallback", "error"}
        /\ InternalFailure =>
               /\ response.answer.kind = "error"
               /\ response.sources = <<>>
               /\ response.confidence = Zero

\* C4 witness: one adapter query raised, another returned a passage with a
\* malformed content, the backend failed, and query returned the error result.
C4_Witness ==
    /\ QueryDone
    /\ \E i \in 1..Len(calls) :
           calls[i].to = "adapter" /\ AnswerFor(calls[i].collection).raises
    /\ BackendFails
    /\ TopContentMalformed
    /\ response.returned
    /\ response.answer.kind = "error"

\* Every queried collection failed (its query raised) or returned no passage
\* at or above the threshold: what it returned is no passage at all or has a
\* relevance, absent or a number, below the threshold.
NothingRelevant ==
    \A i \in 1..Len(Queried) :
        LET a == AnswerFor(Queried[i])
        IN  \/ a.raises
            \/ \A k \in 1..Len(a.results) :
                   \/ ~a.results[k].dict
                   \/ /\ a.results[k].score_kind \in {"num", "missing"}
                      /\ Relevance(a.results[k]) < config.similarity_threshold

\* C7: when every queried collection fails or returns nothing at or above the
\* threshold, the retrieval is empty, not an error, and query returns the
\* fixed no-information message with confidence 0 and no sources, whatever
\* includeSources is and whether or not a backend is configured.
C7_EmptyRetrieval ==
    QueryDone /\ NothingRelevant =>
        /\ relevant_docs = [raised |-> FALSE, docs |-> <<>>]
        /\ response.returned /\ ~response.raised
        /\ response.answer.kind = "no_information"
        /\ response.sources = <<>>
        /\ response.confidence.num = 0

\* C7 witness: includeSources is true, a backend is configured, one collection
\* failed, another returned a passage below the threshold, and query returned.
C7_Witness ==
    /\ QueryDone
    /\ NothingRelevant
    /\ req.include_sources
    /\ backend.configured
    /\ \E i \in 1..Len(Queried) : AnswerFor(Queried[i]).raises
    /\ \E i \in 1..Len(Queried) : AnswerFor(Queried[i]).results # <<>>
    /\ response.returned

\* C8: with a backend configured and a non-empty retrieval, a failure of the
\* backend path gives the extractive answer, which starts with an excerpt of
\* the top passage's content (its first 500 characters, or all of it); the
\* failure does not reach the caller and the result is not the error result.
C8_BackendFailureFallsBack ==
    QueryDone /\ BackendFails /\ relevant_docs.docs # <<>> /\ ~TopContentMalformed =>
        /\ response.returned /\ ~response.raised
        /\ response.answer.kind = "fallback"
        /\ response.answer.excerpts # <<>>
        /\ response.answer.excerpts[1].doc = 1
        /\ LET content_len == IF relevant_docs.docs[1].content_kind = "text"
                               THEN relevant_docs.docs[1].content_len ELSE 0
           IN  response.answer.excerpts[1].take =
                   IF content_len <= 500 THEN content_len ELSE 500

\* C8 witness: the backend call timed out and query returned the extractive
\* answer, whose first excerpt is 500 characters of a longer top passage.
C8_Witness ==
    /\ QueryDone
    /\ backend.configured /\ backend.behaviour = "timeout"
    /\ \E i \in 1..Len(calls) : calls[i].to = "backend"
    /\ response.answer.kind = "fallback"
    /\ relevant_docs.docs[1].content_len = 600
    /\ response.answer.excerpts[1].take = 500

\* C19: every call of query that returns ends in exactly one of three
\* terminal states: an answer generated from content, the no-information
\* answer, or the extractive fallback answer; there is no other outcome.
C19_ThreeOutcomes ==
    QueryDone => response.answer.kind \in {"generated", "no_information", "fallback"}

\* C19 with the fourth outcome: query ends in exactly one of four terminal
\* states.  The error result after an unexpected internal failure;
\* otherwise the no-information answer when the retrieval is empty, the
\* generated answer when the retrieval is not empty and the configured
\* backend completes, and the extractive fallback answer when the retrieval
\* is not empty and the backend is absent or fails.
C19_FourOutcomes ==
    QueryDone =>
        LET kind == response.answer.kind
            found == relevant_docs.docs # <<>>
        IN  /\ response.returned
            /\ kind = "error" <=> InternalFailure
            /\ kind = "no_information" <=> ~InternalFailure /\ ~found
            /\ kind = "generated" <=>
                   /\ ~InternalFailure /\ found
                   /\ backend.configured /\ backend.behaviour = "completion"
            /\ kind = "fallback" <=>
                   /\ ~InternalFailure /\ found
                   /\ ~backend.configured \/ BackendFails

\* A retrieval that raised on a score, with a backend that would have
\* completed: query ended in the error result.
C19_Witness ==
    /\ QueryDone
    /\ relevant_docs.raised
    /\ backend.configured /\ backend.behaviour = "completion"
    /\ response.answer.kind = "error"

\* C28: include_sources decides the sources field and nothing else: the
\* answer and the confidence of a query are those of the same query with
\* include_sources = TRUE, the confidence being taken from all the retrieved
\* passages, and with include_sources = FALSE the sources are [].
C28_IncludeSourcesOnlySources ==
    QueryDone =>
        LET twin == QueryResult([req EXCEPT !.include_sources = TRUE])
        IN  /\ response.answer = twin.answer
            /\ response.confidence = twin.confidence
            /\ response.sources = IF req.include_sources THEN twin.sources ELSE <<>>

\* A query without sources whose retrieval is not empty: no sources, and a
\* confidence above 0.
C28_Witness ==
    /\ QueryDone
    /\ ~req.include_sources
    /\ relevant_docs.docs # <<>>
    /\ response.answer.kind \in {"generated", "fallback"}
    /\ response.sources = <<>>
    /\ response.confidence.num > 0

\* The places in the log of the calls made to the backend.
BackendCalls == {i \in DOMAIN calls : calls[i].to = "backend"}

\* C30: within one query the backend is called at most once, only after the
\* retrieval has returned a non-empty RetrievalSet, and never when no backend
\* is configured; the confidence is computed once the final answer, generated
\* or extractive, is there, from the length of that answer.
C30_BackendOnceThenConfidence ==
    op = "query" =>
        /\ Cardinality(BackendCalls) <= 1
        /\ BackendCalls # {} =>
               /\ backend.configured
               /\ pc \in {"backend", "done"}
               /\ ~relevant_docs.raised /\ relevant_docs.docs # <<>>
               /\ \A i \in BackendCalls : \A j \in DOMAIN calls :
                      calls[j].to = "adapter" => j < i
        /\ pc # "done" => response = NoResponse
        /\ pc = "done" /\ response.answer.kind \in {"generated", "fallback"} =>
               LET n == Len(relevant_docs.docs)
                   value == 150 * n * n + 25 * SumRelevance(relevant_docs.docs)
                            + 2 * n * Min(response.answer.len, 500)
               IN  response.confidence.num * 5000 * n =
                       Min(value, 5000 * n) * response.confidence.den

\* The one backend call failed and the confidence counts the length of the
\* extractive answer made after it.
C30_Witness ==
    /\ QueryDone
    /\ Cardinality(BackendCalls) = 1
    /\ BackendFails
    /\ response.answer.kind = "fallback"
    /\ response.answer.len > 0
    /\ response.confidence.num > 0

-----------------------------------------------------------------------------
(* Calls of _prepare_context *)

\* Blocks of 58, 167 and 646 characters.
PackKinds ==
    {[Passage EXCEPT !.content_len = 40],
     [Passage EXCEPT !.source = ""],
     [Passage EXCEPT !.content_len = 600, !.title_len = 12, !.timestamp_len = 19]}

\* 100 leaves exactly 100 characters before the first block, 158 and 159
\* leave 100 and 101 after a block of 58.
PackBudgets == {0, 100, 158, 159, 200, 400, 4000}

ListsOf(kinds, max_len) == UNION {[1..n -> kinds] : n \in 0..max_len}

\* _prepare_context(docs, max_length) from call to return.
CallPrepareContext ==
    \E docs \in ListsOf(PackKinds, MaxPacked), max_length \in PackBudgets :
        /\ pc = "idle"
        /\ op' = "pack"
        /\ req' = [Request EXCEPT !.max_length = max_length]
        /\ relevant_docs' = [raised |-> FALSE, docs |-> docs]
        /\ context' = PrepareContext(docs, max_length)
        /\ pc' = "done"
        /\ UNCHANGED <<config, store, backend, suspended, cursor, all_results, response,
                       timeline, calls>>

InitPack ==
    /\ config = Config(DefaultSimilarityThreshold)
    /\ store = [c \in StoredCollections |-> Returns(<<>>)]
    /\ backend = Backend(FALSE, "completion", 0)
    /\ Idle

NextPack == CallPrepareContext

SpecPack == InitPack /\ [][NextPack]_vars

PackDone == op = "pack" /\ pc = "done"

\* C2: the text returned by the Context Packer for the budget B is at most
\* B plus one delimiter (5 characters) long, the delimiters between all the
\* blocks and the ellipsis of a truncated last block counted.
C2_BudgetInvariant ==
    PackDone => context.len <= req.max_length + 5

\* The length of the blocks of the first k passages handed to the packer.
RECURSIVE BlocksLen(_)
BlocksLen(k) ==
    IF k = 0 THEN 0 ELSE BlocksLen(k - 1) + DocTextLen(relevant_docs.docs[k])

\* How many leading passages have blocks that fit whole in the budget.
WholeBlocks ==
    CHOOSE k \in 0..Len(relevant_docs.docs) :
        /\ BlocksLen(k) <= req.max_length
        /\ k < Len(relevant_docs.docs) => BlocksLen(k + 1) > req.max_length

\* The blocks that fit whole are included; when the next one does not fit, it
\* is included cut to the remaining budget and marked with an ellipsis if at
\* least `least` characters remain, and omitted otherwise; nothing follows.
PacksWithLeast(least) ==
    LET k == WholeBlocks
        remaining == req.max_length - BlocksLen(k)
        cut == k < Len(relevant_docs.docs) /\ remaining >= least
    IN  /\ Len(context.parts) = IF cut THEN k + 1 ELSE k
        /\ \A i \in 1..k : context.parts[i].doc = i /\ ~context.parts[i].truncated
        /\ cut => context.parts[k + 1] =
                      [doc |-> k + 1, len |-> remaining + 3, truncated |-> TRUE]

\* C15: if the next block does not fit whole and at least 100 characters of
\* the budget remain, the block is included cut to the remaining budget and
\* marked with an ellipsis, as the last block; if less than 100 remain it is
\* omitted.  Exactly 100 remaining characters include the cut block.
C15_TruncateFrom100 == PackDone => PacksWithLeast(100)

\* C15 as the code has it: the cut block is included if more than 100
\* characters remain (101 or more) and omitted if 100 or fewer remain.
C15_TruncateAbove100 == PackDone => PacksWithLeast(101)

\* Exactly 100 characters remain after a whole block, and the next block is
\* left out.
C15_Witness ==
    /\ PackDone
    /\ WholeBlocks >= 1
    /\ WholeBlocks < Len(relevant_docs.docs)
    /\ req.max_length - BlocksLen(WholeBlocks) = 100
    /\ Len(context.parts) = WholeBlocks

\* C25: the packer takes the passages in the given order and stops at the
\* first block that would exceed the budget: the blocks of the output are
\* those of a prefix of the passage list, only the last may be cut, and no
\* passage after the first that does not fit is included, even if its block
\* would fit in what remains.
C25_PrefixOnly ==
    PackDone =>
        /\ \A i \in DOMAIN context.parts :
               /\ context.parts[i].doc = i
               /\ context.parts[i].truncated => i = Len(context.parts)
               /\ ~context.parts[i].truncated => BlocksLen(i) <= req.max_length
               /\ context.parts[i].doc <= WholeBlocks + 1

\* A later passage whose block would fit in what remains is left out.
C25_Witness ==
    /\ PackDone
    /\ \E j \in DOMAIN relevant_docs.docs :
           /\ j > WholeBlocks + 1
           /\ BlocksLen(WholeBlocks) + DocTextLen(relevant_docs.docs[j])
                  <= req.max_length
           /\ \A i \in DOMAIN context.parts : context.parts[i].doc # j

-----------------------------------------------------------------------------
(* Calls of _calculate_confidence *)

\* Relevance 1 - distance for the distances 2.0, 1.0, 0.3 and 0.0.
ScoredKinds == {Scored(-100), Scored(0), Scored(70), Scored(100)}

\* The lists of n passages whose first k are of one kind and the rest of another.
ScoredLists ==
    {[i \in 1..n |-> IF i <= k THEN p ELSE q] :
        n \in 0..MaxScored, k \in 0..MaxScored, p \in ScoredKinds, q \in ScoredKinds}

AnswerLens == {0, 250, 500, 900}

\* _calculate_confidence(docs, answer) from call to return.
CallCalculateConfidence ==
    \E docs \in ScoredLists, answer_len \in AnswerLens :
        /\ pc = "idle"
        /\ op' = "score"
        /\ req' = [Request EXCEPT !.answer_len = answer_len]
        /\ relevant_docs' = [raised |-> FALSE, docs |-> docs]
        /\ response' = [NoResponse EXCEPT
                           !.confidence = CalculateConfidence(docs, answer_len)]
        /\ pc' = "done"
        /\ UNCHANGED <<config, store, backend, suspended, cursor, all_results, context,
                       timeline, calls>>

InitScore == InitPack

NextScore == CallCalculateConfidence

SpecScore == InitScore /\ [][NextScore]_vars

ScoreDone == op = "score" /\ pc = "done"

\* C3: for every passage list, relevance scores below 0 included, and every
\* answer, the confidence is within [0, 1], and it is 0 for the empty list.
C3_ConfidenceBounds ==
    ScoreDone =>
        /\ 0 <= response.confidence.num
        /\ response.confidence.num <= response.confidence.den
        /\ relevant_docs.docs = <<>> => response.confidence.num = 0

\* C10: for a non-empty passage list the confidence is
\* min(1, 0.3 * min(n / 10, 1) + 0.5 * avgRelevance + 0.2 * min(len / 500, 1)):
\* the document-count term is capped at 0.3.  Both sides are taken over the
\* denominator 5000 * n, relevance in hundredths.
C10_Formula ==
    ScoreDone /\ relevant_docs.docs # <<>> =>
        LET n == Len(relevant_docs.docs)
            sum == SumRelevance(relevant_docs.docs)
            claimed == 150 * n * Min(n, 10) + 25 * sum
                       + 2 * n * Min(req.answer_len, 500)
        IN  response.confidence.num * 5000 * n =
                Min(claimed, 5000 * n) * response.confidence.den

-----------------------------------------------------------------------------
(* Calls of get_historical_timeline *)

\* Longest answer of the adapter in the specification of the timeline.
MaxRespTimeline == 2

Dated(tokens) == [Passage EXCEPT !.tokens = tokens]

\* One year, and another inside a word; two years, the later first; one
\* year twice; no year within 1950..2029; a content that is no string.
TimelineKinds ==
    {[Dated(<<1984>>) EXCEPT !.embedded = <<2021>>], Dated(<<2029, 1950>>),
     Dated(<<1984, 1984>>), Dated(<<1949, 2030>>), BadContent}

InitTimeline ==
    /\ config = Config(DefaultSimilarityThreshold)
    /\ store \in [StoredCollections -> AnswersOf(TimelineKinds, MaxRespTimeline)]
    /\ backend = Backend(FALSE, "completion", 0)
    /\ Idle

\* get_historical_timeline(topic): _retrieve_documents(query, max_sources=20).
CallTimeline == Call("timeline", [Request EXCEPT !.max_sources = 20])

NextTimeline == CallTimeline \/ Fetch \/ Rank \/ ExtractTimeline

SpecTimeline == InitTimeline /\ [][NextTimeline]_vars

TimelineReturned == op = "timeline" /\ pc = "done" /\ timeline.returned

\* C11: the events of a returned timeline are in ascending order of year.
C11_Ascending ==
    TimelineReturned =>
        \A i, j \in DOMAIN timeline.timeline :
            i < j => timeline.timeline[i].year <= timeline.timeline[j].year

\* A timeline of three events or more that found the later year first.
C11_Witness ==
    /\ TimelineReturned
    /\ Len(timeline.timeline) >= 3
    /\ \E i, j \in DOMAIN relevant_docs.docs :
           /\ i < j
           /\ \E a \in YearSet(relevant_docs.docs[i]) :
                  \E b \in YearSet(relevant_docs.docs[j]) : a > b

\* C22: get_historical_timeline does not raise, whatever the collaborators
\* answer: it returns a timeline result also when a retrieved passage has a
\* content or a relevance score that is missing or of the wrong type.
C22_TimelineNeverRaises ==
    op = "timeline" /\ pc = "done" => timeline.returned /\ ~timeline.raised

\* The numbers written in passage i of the retrieved passages.
Written(i) ==
    {relevant_docs.docs[i].tokens[k] : k \in DOMAIN relevant_docs.docs[i].tokens}

\* The events of the timeline for the year y of passage i.
EventsFor(i, y) ==
    {k \in DOMAIN timeline.timeline :
        timeline.timeline[k].passage = i /\ timeline.timeline[k].year = y}

\* C17: a year written several times in one passage gives one event for that
\* passage, a year written in several passages gives one event for each of
\* them, nothing else gives an event, and total_events is the length of the
\* timeline.
C17_OneEventPerPassageAndYear ==
    TimelineReturned =>
        /\ \A i \in DOMAIN relevant_docs.docs : \A y \in 1950..2029 :
               Cardinality(EventsFor(i, y)) = IF y \in Written(i) THEN 1 ELSE 0
        /\ \A k \in DOMAIN timeline.timeline :
               /\ timeline.timeline[k].passage \in DOMAIN relevant_docs.docs
               /\ timeline.timeline[k].year \in 1950..2029
        /\ timeline.total_events = Len(timeline.timeline)

\* A year written twice in one passage and once in another.
C17_Witness ==
    /\ TimelineReturned
    /\ \E i, j \in DOMAIN relevant_docs.docs :
           /\ i # j
           /\ relevant_docs.docs[i].tokens = <<1984, 1984>>
           /\ relevant_docs.docs[j].tokens = <<1984>>
           /\ EventsFor(i, 1984) # {} /\ EventsFor(j, 1984) # {}

\* C27: the year of every event lies in 1950..2029 and is written as a
\* stand-alone four-digit token in the content of the passage the event
\* comes from; a four-digit token outside 1950..2029 gives no event.
C27_YearsFromContent ==
    TimelineReturned =>
        /\ \A k \in DOMAIN timeline.timeline :
               LET ev == timeline.timeline[k]
               IN  /\ ev.year >= 1950 /\ ev.year <= 2029
                   /\ ev.passage \in DOMAIN relevant_docs.docs
                   /\ ev.year \in Written(ev.passage)
        /\ \A i \in DOMAIN relevant_docs.docs : \A token \in Written(i) :
               token < 1950 \/ token > 2029 => EventsFor(i, token) = {}

\* The first and the last year of the range give events, 1949 and 2030 of
\* another passage and a year inside a word do not.
C27_Witness ==
    /\ TimelineReturned
    /\ \E i, j, l \in DOMAIN relevant_docs.docs :
           /\ relevant_docs.docs[i].tokens = <<1949, 2030>>
           /\ relevant_docs.docs[j].tokens = <<2029, 1950>>
           /\ relevant_docs.docs[l].embedded = <<2021>>
           /\ EventsFor(j, 1950) # {} /\ EventsFor(j, 2029) # {}
    /\ \A k \in DOMAIN timeline.timeline : timeline.timeline[k].year # 2021

\* The years of the events of the timeline.
EventYears == {timeline.timeline[k].year : k \in DOMAIN timeline.timeline}

\* C18: year_range.start is the least and year_range.end the greatest year
\* of the events, so start <= end, and both are None exactly when the timeline
\* has no event.
C18_YearRange ==
    TimelineReturned =>
        LET range == timeline.year_range
        IN  /\ range.start.none <=> timeline.timeline = <<>>
            /\ range.end.none <=> timeline.timeline = <<>>
            /\ timeline.timeline = <<>> => range.start = None /\ range.end = None
            /\ timeline.timeline # <<>> =>
                   /\ range.start.value \in EventYears
                   /\ range.end.value \in EventYears
                   /\ \A y \in EventYears :
                          range.start.value <= y /\ y <= range.end.value
                   /\ range.start.value <= range.end.value

\* A timeline over several years whose first passage names the latest.
C18_Witness ==
    /\ TimelineReturned
    /\ Cardinality(EventYears) >= 3
    /\ relevant_docs.docs[1].tokens = <<2029, 1950>>

-----------------------------------------------------------------------------
(* Calls of _retrieve_documents with any max_sources *)

\* Most passages a collection holds in the specification of the fetch count.
MaxStored == 3

\* A passage above the default threshold and one below it.
QuotaKinds == {Scored(90), Scored(50)}

\* The store answers a query with its nearest passages, the nearest first.
NearestFirst(answer) ==
    \A i, j \in DOMAIN answer.results :
        i < j => answer.results[i].score >= answer.results[j].score

InitQuota ==
    /\ config = Config(DefaultSimilarityThreshold)
    /\ store \in [StoredCollections ->
                     {a \in AnswersOf(QuotaKinds, MaxStored) : NearestFirst(a)}]
    /\ backend = Backend(FALSE, "completion", 0)
    /\ Idle

\* max_sources is an int of the request model, negative values included.
CallRetrieveAny ==
    \E max_sources \in -3..MaxSources, collections \in CollectionArgs :
        Call("retrieve", [Request EXCEPT !.max_sources = max_sources,
                                         !.collections = collections])

NextQuota == CallRetrieveAny \/ Fetch \/ Rank

SpecQuota == InitQuota /\ [][NextQuota]_vars

\* C12: for every integer max_sources the interface accepts, the
\* RetrievalSet holds no more than max_sources passages: none when
\* max_sources is negative.
C12_AtMostMaxSources ==
    RetrieveReturned => Len(relevant_docs.docs) <= Max(req.max_sources, 0)

\* C13: each collection is asked for exactly floor(max_sources / |collections|)
\* + 2 results, and that fetch count is never negative.
C13_FetchCount ==
    \A i \in DOMAIN calls :
        calls[i].to = "adapter" =>
            LET floor == calls[i].n_results - 2
            IN  /\ floor * Len(Queried) <= req.max_sources
                /\ req.max_sources < (floor + 1) * Len(Queried)
                /\ calls[i].n_results >= 0

\* The passages at or above the threshold that the queried collections hold.
HeldAboveThreshold ==
    {<<c, i>> \in (DOMAIN store) \X (1..MaxStored + 1) :
        /\ \E k \in DOMAIN Queried : Queried[k] = c
        /\ ~store[c].raises
        /\ i <= Len(store[c].results)
        /\ Relevance(store[c].results[i]) >= config.similarity_threshold}

\* C14: whenever the queried collections together hold at least max_sources
\* passages at or above the threshold, however they are spread over the
\* collections, _retrieve_documents returns exactly max_sources passages.
\* Stated for max_sources >= 0; a negative max_sources is the case of C12.
C14_MarginSuffices ==
    RetrieveReturned /\ req.max_sources >= 0
                     /\ Cardinality(HeldAboveThreshold) >= req.max_sources =>
        Len(relevant_docs.docs) = req.max_sources

-----------------------------------------------------------------------------
(* Calls of _generate_fallback_answer *)

\* Most passages handed to the Fallback Synthesizer.
MaxExcerpted == 4

\* With one source, with another, without a source; contents of 200, 201
\* and 600 characters; a content that is no string.
FallbackKinds ==
    {[Passage EXCEPT !.content_len = 200],
     [Passage EXCEPT !.content_len = 201, !.source = "nature.com"],
     [Passage EXCEPT !.content_len = 600],
     [Passage EXCEPT !.content_len = 600, !.source = ""],
     BadContent}

\* _generate_fallback_answer(question, context_docs) from call to return.
CallGenerateFallbackAnswer ==
    \E docs \in ListsOf(FallbackKinds, MaxExcerpted) :
        LET generated == GenerateFallbackAnswer(docs)
        IN  /\ pc = "idle"
            /\ op' = "fallback"
            /\ relevant_docs' = [raised |-> FALSE, docs |-> docs]
            /\ response' = [NoResponse EXCEPT !.raised = generated.raised,
                                              !.answer = generated.answer]
            /\ pc' = "done"
            /\ UNCHANGED <<config, store, backend, suspended, req, cursor, all_results,
                           context, timeline, calls>>

InitFallback == InitPack

NextFallback == CallGenerateFallbackAnswer

SpecFallback == InitFallback /\ [][NextFallback]_vars

FallbackReturned == op = "fallback" /\ pc = "done" /\ ~response.raised

\* The passages the extractive answer is made of.
TopPassages == SliceTo(relevant_docs.docs, 3)

\* The first of the top passages that has the source src.
FirstWithSource(src) ==
    CHOOSE i \in DOMAIN TopPassages :
        /\ TopPassages[i].source = src
        /\ \A j \in 1..(i - 1) : TopPassages[j].source # src

\* C16: the citation line of the extractive answer lists each distinct
\* source of the top 3 passages exactly once, in the order of first
\* occurrence, and there is no citation line when none of those passages has
\* a source value.
C16_Citations ==
    FallbackReturned /\ relevant_docs.docs # <<>> =>
        LET cites == response.answer.cites
        IN  /\ \A k \in DOMAIN cites :
                   \E i \in DOMAIN TopPassages :
                       TopPassages[i].source # "" /\ TopPassages[i].source = cites[k]
            /\ \A i \in DOMAIN TopPassages :
                   TopPassages[i].source # "" =>
                       Cardinality({k \in DOMAIN cites :
                                       cites[k] = TopPassages[i].source}) = 1
            /\ \A k, l \in DOMAIN cites :
                   k < l /\ cites[k] # "Unknown source" /\ cites[l] # "Unknown source"
                       => FirstWithSource(cites[k]) < FirstWithSource(cites[l])
            /\ (\A i \in DOMAIN TopPassages : TopPassages[i].source = "")
                   => cites = <<>>

\* C26: the extractive answer is made of the first 3 passages only, in
\* rank order: a content longer than 200 characters gives its first 500
\* characters and an ellipsis, a content of 200 characters or less is taken
\* as it is, and a passage ranked 4th or lower changes nothing, neither the
\* answer nor whether one is returned.
C26_TopThreeExcerpts ==
    op = "fallback" /\ pc = "done" /\ relevant_docs.docs # <<>> =>
        /\ response.raised <=>
               \E i \in DOMAIN TopPassages : TopPassages[i].content_kind = "bad"
        /\ ~response.raised =>
               LET excerpts == response.answer.excerpts
               IN  /\ Len(excerpts) = Len(TopPassages)
                   /\ Len(excerpts) <= 3
                   /\ \A i \in DOMAIN excerpts :
                          LET n == TopPassages[i].content_len
                          IN  /\ excerpts[i].doc = i
                              /\ excerpts[i].ellipsis <=> n > 200
                              /\ excerpts[i].take = IF n > 500 THEN 500 ELSE n
                   /\ response.answer = GenerateFallbackAnswer(TopPassages).answer

\* Four passages, the fourth with a content that is no string: the answer
\* has three excerpts, of 200 characters as they are, of 201 with an ellipsis
\* and of 500 out of 600.
C26_Witness ==
    /\ FallbackReturned
    /\ Len(relevant_docs.docs) = 4
    /\ relevant_docs.docs[4].content_kind = "bad"
    /\ Len(response.answer.excerpts) = 3
    /\ response.answer.excerpts[1] =
           [doc |-> 1, take |-> 200, ellipsis |-> FALSE, len |-> 200]
    /\ response.answer.excerpts[2] =
           [doc |-> 2, take |-> 201, ellipsis |-> TRUE, len |-> 204]
    /\ response.answer.excerpts[3] =
           [doc |-> 3, take |-> 500, ellipsis |-> TRUE, len |-> 503]

-----------------------------------------------------------------------------
(* Calls of query with a backend that may never respond *)

InitUnresponsive ==
    /\ config = Config(DefaultSimilarityThreshold)
    /\ store \in [StoredCollections -> AnswersOf(QuotaKinds, MaxRespQuery)]
    /\ backend \in Backends \cup {Backend(TRUE, "hangs", 0)}
    /\ Idle

\* The event loop runs the call as long as it has a step to take.
SpecUnresponsive ==
    InitUnresponsive /\ [][NextQuery]_vars /\ WF_vars(NextQuery)

\* C20: the backend call is bounded by a timeout that counts as a backend
\* failure, so under fair scheduling every call of query returns, even if
\* the backend never responds: a call that has not returned has a step to
\* take, and after a backend that did not respond the answer is the
\* extractive fallback answer.
C20_EventuallyReturns ==
    /\ op = "query" /\ pc # "done" => ENABLED NextQuery
    /\ QueryDone /\ backend.behaviour = "hangs" /\ relevant_docs.docs # <<>>
           => response.answer.kind = "fallback"

-----------------------------------------------------------------------------
(* Calls of query and get_historical_timeline, one after the other and
   interleaved *)

\* The answers of a collection: a failure, or one passage above the threshold
\* that names a year.
SessionAnswers ==
    {Raises, Returns(<<[Dated(<<1984>>) EXCEPT !.content_len = 600]>>)}

SessionBackends ==
    {Backend(FALSE, "completion", 0), Backend(TRUE, "completion", 120),
     Backend(TRUE, "raises", 0)}

InitSessions ==
    /\ config = Config(DefaultSimilarityThreshold)
    /\ store \in [StoredCollections -> SessionAnswers]
    /\ backend \in SessionBackends
    /\ Idle

\* query(question) with the defaults.
CallQueryDefaults == Call("query", Request)

\* query and _retrieve_documents with collections=[] .
CallWithEmptyList ==
    \E operation \in {"query", "retrieve"}, include_sources \in BOOLEAN :
        Call(operation, [Request EXCEPT !.include_sources = include_sources,
                                        !.collections = Collections(<<>>)])

NextSessions ==
    \/ CallQueryDefaults
    \/ CallWithEmptyList
    \/ CallTimeline
    \/ IssueFetch
    \/ CompleteFetch
    \/ Rank
    \/ Synthesize
    \/ BackendReturns
    \/ ExtractTimeline
    \/ Finish
    \/ Switch

SpecSessions == InitSessions /\ [][NextSessions]_vars

\* What the call returned is what its arguments, the configuration and the
\* collaborators' answers give when the call is taken alone.
AsIfAlone(call) ==
    call.pc = "done" =>
        /\ call.op = "query" => call.response = QueryResult(call.req)
        /\ call.op = "timeline" => call.timeline \in TimelineResults(call.req)
        /\ call.op = "retrieve" =>
               call.relevant_docs =
                   RetrieveDocuments(store, call.req.max_sources, call.req.collections)

\* C21: the engine keeps nothing from one call to the next and shares
\* nothing between calls: the answer, the sources and the confidence of a
\* query, like the result of a timeline call, depend on the call's arguments,
\* the configuration and the collaborators' answers only, whatever ran
\* before the call or is interleaved with it.
C21_Stateless == AsIfAlone(Running) /\ AsIfAlone(suspended)

\* A query returned an answer in a frame that served a timeline call before,
\* while a timeline call waits for the adapter.
C21_Witness ==
    /\ QueryDone
    /\ response.answer.kind \in {"generated", "fallback"}
    /\ timeline.returned /\ timeline.timeline # <<>>
    /\ suspended.op = "timeline" /\ suspended.pc = "awaiting"

\* C23: across any sequence of query and get_historical_timeline calls the
\* contents of the store do not change, and the only operation of the
\* adapter that the engine calls is query_documents.
C23_ReadOnly ==
    [][/\ store' = store
       /\ \A i \in DOMAIN calls' :
              calls'[i].to = "adapter" => calls'[i].operation = "query_documents"]_vars

\* A query and a timeline call have both returned after querying the adapter.
C23_Witness ==
    /\ QueryDone
    /\ \E i \in DOMAIN calls : calls[i].to = "adapter"
    /\ suspended.op = "timeline" /\ suspended.pc = "done"
    /\ \E i \in DOMAIN suspended.calls : suspended.calls[i].to = "adapter"

\* C24: within one retrieval the fetches are issued concurrently: while the
\* answer of one collection is awaited and collections remain, the fetch of
\* the next collection can be issued; ranking, filtering and truncation start
\* only when the fetch of every collection has completed or failed.
C24_FanOutFanIn ==
    /\ pc = "awaiting" /\ cursor < Len(Queried) => ENABLED IssueFetch
    /\ op # "none" /\ pc \in {"retrieved", "backend", "done"} =>
           cursor > Len(Queried)

\* C29: with an explicitly empty collection list, retrieval makes no adapter
\* call and divides by nothing: it returns an empty RetrievalSet, and query
\* returns the no-information answer with confidence 0, not the error
\* result.  Only collections = None selects the five default collections.
C29_EmptyListQueriesNothing ==
    /\ op \in {"query", "retrieve"} /\ req.collections = Collections(<<>>) =>
           /\ calls = <<>>
           /\ pc \in {"retrieved", "done"} =>
                  relevant_docs = [raised |-> FALSE, docs |-> <<>>]
           /\ QueryDone => response = NoInformation
    /\ op # "none" /\ req.collections.none /\ pc \in {"retrieved", "done"} =>
           /\ Len(calls) >= Len(DefaultCollections)
           /\ \A i \in DOMAIN DefaultCollections :
                  calls[i].to = "adapter" /\ calls[i].collection = DefaultCollections[i]

\* query with collections=[] returned the no-information answer although the
\* default collections hold a passage above the threshold.
C29_Witness ==
    /\ QueryDone
    /\ req.collections = Collections(<<>>)
    /\ response = NoInformation
    /\ calls = <<>>
    /\ \E c \in DOMAIN store : ~store[c].raises /\ store[c].results # <<>>

====
